---- MODULE Spec2Model ----
(***************************************************************************)
(* ESSnoop: the jump classifier of modules/jsonanalyzer.py (class          *)
(* Analyzer) and the reconciliation of analyze(), run over a CFG of blocks *)
(* and successor records as EtherSolve writes it.                          *)
(*                                                                         *)
(* A block is [offset, parsedOpcodes]; parsedOpcodes is the listing after  *)
(* split("\n"): a sequence of lines, and a line is the sequence of fields  *)
(* that split(":") gives ("12: JUMPDEST" is <<"12", " JUMPDEST">>, a line  *)
(* without a colon has one field).  An edge record is [from, to]; the code *)
(* reads edge["to"] only through set(...), so `to` is a set here.          *)
(*                                                                         *)
(* The search of Analyzer.__is_unreachable_block is also modelled one      *)
(* iteration at a time, and json_analyzer_scheduler of essnoop.py with one *)
(* worker result per address.                                              *)
(*                                                                         *)
(* parse_bytecode of modules/opcodesparser.py is the decoder that writes   *)
(* the .opcodes file analyze() counts.  The content of a .bytecode file is *)
(* [exists, prefix, payload]: the first characters as a string and then a  *)
(* sequence of bytes, a byte being a string of two hex characters; the     *)
(* cursor i counts characters as in the code.                              *)
(***************************************************************************)
EXTENDS Integers, Sequences, FiniteSets, TLC

VARIABLES
    blocks,              \* self.__blocks: the "nodes" of the CFG, <<>> once the Analyzer is deleted
    edges,               \* self.__edges: the "successors" records
    log,                 \* TRUE when a logger is supplied
    pc,                  \* "analyze_jumps", "returned", "reconcile", "done", "raised" or "idle"
    stats,               \* self.__stats, JUMP_STATS in analyze
    encountered_errors,  \* ENCOUNTERED_ERRORS
    outcome,             \* per block, in list order, what the log reports of it
    STATS,               \* the STATS dictionary analyze returns
    missing,             \* MISSING_JUMPS
    marker,              \* second component analyze returns: "address" or "None"
    infile,              \* the <address>.bytecode file
    bytecode,            \* the string parse_bytecode walks, after bytecode[2:]
    i,                   \* the cursor of parse_bytecode, in characters
    outfile,             \* the lines written to <address>.opcodes
    ret,                 \* what parse_bytecode returns: "address" or "None", "pending" before
    dpc,                 \* "parse_bytecode", "loop", "parsed", "returned", "counted" or "idle"
    reads,               \* per iteration of the loop: the cursor, the opcode read, the instruction
    q_target,            \* target_offset of a call of __is_unreachable_block
    q_stack,             \* its stack, the top being the last element
    q_visited,           \* its set of visited offsets
    is_unreachable,      \* what it returns: "True" or "False", "pending" before
    spc,                 \* "search", "returned" or "idle"
    results,             \* per address, what its worker (analyze) ends with
    completed,           \* the addresses whose future is done, in order of completion
    consumed,            \* how many of them the as_completed loop has taken
    df_res,              \* the DataFrame of json_analyzer_scheduler
    involved_in_error,   \* its set of addresses
    jpc                  \* "collect", "returned", "raised" or "idle"

\* the variables of parse_bytecode
dvars == <<infile, bytecode, i, outfile, ret, dpc, reads>>

\* the variables of __is_unreachable_block
svars == <<q_target, q_stack, q_visited, is_unreachable, spc>>

\* the variables of json_analyzer_scheduler
jvars == <<results, completed, consumed, df_res, involved_in_error, jpc>>

vars == <<blocks, edges, log, pc, stats, encountered_errors, outcome,
          STATS, missing, marker, dvars, svars, jvars>>

(* ------------------------------ bounds -------------------------------- *)
\* at most MaxEdges successor records in the CFG
MaxEdges == 2
\* at most MaxLines lines in the .opcodes file
MaxLines == 2
\* at most MaxPayload bytes after the prefix of a .bytecode file
MaxPayload == 4

\* the offsets a CFG may use, for blocks and in successor records
Offsets == {0, 1, 2}

(* --------------------------- opcode strings --------------------------- *)
\* str.strip().upper() on the mnemonic texts the model uses
StripUpper(s) ==
    CASE s = " JUMP" -> "JUMP"
      [] s = " JUMPI" -> "JUMPI"
      [] s = " JUMPDEST" -> "JUMPDEST"
      [] s = " STOP" -> "STOP"
      [] s = " PUSH1 0x00" -> "PUSH1 0X00"
      [] OTHER -> s

GetOpType(op) ==
    LET u == StripUpper(op) IN
    IF u = "JUMP" THEN "JUMP"
    ELSE IF u = "JUMPI" THEN "JUMPI"
    ELSE IF u = "JUMPDEST" THEN "JUMPDEST"
    ELSE "OTHER"

Line(op) == <<"n", op>>
\* "" and every line without a colon: split(":") has one field
NoColon == <<"">>

\* the listings blocks are drawn from
Listings ==
    { << Line(" JUMPDEST") >>,
      << Line(" PUSH1 0x00"), Line(" JUMP") >>,
      << Line(" PUSH1 0x00"), Line(" JUMPI") >>,
      << NoColon >>,
      << Line(" JUMPDEST"), NoColon >> }

(* ------------------------------ Analyzer ------------------------------ *)
NoBlock == [offset |-> -1, parsedOpcodes |-> <<>>]

\* first block of the list with that offset, NoBlock for the raise
RECURSIVE GetBlockFrom(_, _, _)
GetBlockFrom(bs, k, offset) ==
    IF k > Len(bs) THEN NoBlock
    ELSE IF bs[k].offset = offset THEN bs[k]
    ELSE GetBlockFrom(bs, k + 1, offset)

GetBlock(bs, offset) == GetBlockFrom(bs, 1, offset)

\* list(set(s)): CPython walks the hash slots, which for small
\* non-negative ints is ascending order of value
RECURSIVE SetToList(_)
SetToList(s) ==
    IF s = {} THEN <<>>
    ELSE LET m == CHOOSE x \in s : \A y \in s : x <= y
         IN <<m>> \o SetToList(s \ {m})

RECURSIVE GetDestsFrom(_, _, _)
GetDestsFrom(es, k, offset) ==
    IF k > Len(es) THEN <<>>
    ELSE (IF es[k].from = offset THEN SetToList(es[k].to) ELSE <<>>)
         \o GetDestsFrom(es, k + 1, offset)

GetDestsFromOffset(es, offset) == GetDestsFrom(es, 1, offset)

GetDestsFromBlock(es, block) == GetDestsFromOffset(es, block.offset)

\* [raise |-> TRUE] for the IndexError of split(":")[1]
GetFirstLastOpcodes(block) ==
    LET parsedOps == block.parsedOpcodes IN
    IF Len(parsedOps) < 1 THEN [raise |-> TRUE, first |-> "OTHER", last |-> "OTHER"]
    ELSE IF Len(parsedOps) < 2 THEN
        IF Len(parsedOps[1]) < 2
        THEN [raise |-> TRUE, first |-> "OTHER", last |-> "OTHER"]
        ELSE [raise |-> FALSE, first |-> GetOpType(parsedOps[1][2]),
              last |-> GetOpType(parsedOps[1][2])]
    ELSE IF Len(parsedOps[1]) < 2 \/ Len(parsedOps[Len(parsedOps)]) < 2
        THEN [raise |-> TRUE, first |-> "OTHER", last |-> "OTHER"]
        ELSE [raise |-> FALSE, first |-> GetOpType(parsedOps[1][2]),
              last |-> GetOpType(parsedOps[Len(parsedOps)][2])]

\* first opcode type of the block at `dest`: "RAISE" when __get_block or
\* __get_first_last_opcodes raises
DestOp(bs, dest) ==
    LET b == GetBlock(bs, dest) IN
    IF b = NoBlock THEN "RAISE"
    ELSE LET fl == GetFirstLastOpcodes(b) IN
         IF fl.raise THEN "RAISE" ELSE fl.first

\* "True", "False" or "Raise"
IsPreciselySolved(bs, es, jump, block) ==
    LET dests == GetDestsFromBlock(es, block) IN
    IF jump = "JUMP" THEN
        IF Len(dests) # 1 THEN "False"
        ELSE LET dest_op == DestOp(bs, dests[1]) IN
             IF dest_op = "RAISE" THEN "Raise"
             ELSE IF dest_op = "JUMPDEST" THEN "True" ELSE "False"
    ELSE IF jump = "JUMPI" THEN
        IF Len(dests) # 2 THEN "False"
        ELSE LET op_fst_dst == DestOp(bs, dests[1])
                 op_snd_dst == DestOp(bs, dests[2])
             IN IF op_fst_dst = "RAISE" \/ op_snd_dst = "RAISE" THEN "Raise"
                ELSE IF \/ (op_fst_dst = "JUMPDEST" /\ op_snd_dst # "JUMPDEST")
                        \/ (op_fst_dst # "JUMPDEST" /\ op_snd_dst = "JUMPDEST")
                     THEN "True" ELSE "False"
    ELSE "Raise"

\* the JUMP scan with `return False` inside the loop: only the first
\* destination is looked at
SoundJumpScanFirstOnly(bs, dests, k) ==
    IF k > Len(dests) THEN "False"
    ELSE LET dest_op == DestOp(bs, dests[k]) IN
         IF dest_op = "RAISE" THEN "Raise"
         ELSE IF dest_op = "JUMPDEST" THEN "True"
         ELSE "False"

\* the scan of __is_soundly_solved for a JUMP, from position k
RECURSIVE SoundJumpScan(_, _, _)
SoundJumpScan(bs, dests, k) ==
    IF k > Len(dests) THEN "False"
    ELSE LET dest_op == DestOp(bs, dests[k]) IN
         IF dest_op = "RAISE" THEN "Raise"
         ELSE IF dest_op = "JUMPDEST" THEN "True"
         ELSE SoundJumpScan(bs, dests, k + 1)

\* the JUMPI scan with `or` for `and` in the test of the two flags
SoundJumpiScanEither(bs, dests, k, jumpdest_found, non_jumpdest_found) ==
    IF k > Len(dests) THEN "False"
    ELSE LET dest_op == DestOp(bs, dests[k]) IN
         IF dest_op = "RAISE" THEN "Raise" ELSE "True"

\* the scan of __is_soundly_solved for a JUMPI, from position k
RECURSIVE SoundJumpiScan(_, _, _, _, _)
SoundJumpiScan(bs, dests, k, jumpdest_found, non_jumpdest_found) ==
    IF k > Len(dests) THEN "False"
    ELSE LET dest_op == DestOp(bs, dests[k]) IN
         IF dest_op = "RAISE" THEN "Raise"
         ELSE LET jf == jumpdest_found \/ dest_op = "JUMPDEST"
                  nf == non_jumpdest_found \/ dest_op # "JUMPDEST"
              IN IF jf /\ nf THEN "True"
                 ELSE SoundJumpiScan(bs, dests, k + 1, jf, nf)

IsSoundlySolved(bs, es, jump, block) ==
    LET dests == GetDestsFromBlock(es, block) IN
    IF jump = "JUMP" THEN
        IF Len(dests) < 1 THEN "False" ELSE SoundJumpScan(bs, dests, 1)
    ELSE IF jump = "JUMPI" THEN
        IF Len(dests) < 2 THEN "False"
        ELSE SoundJumpiScan(bs, dests, 1, FALSE, FALSE)
    ELSE "Raise"

\* a search that pushes no successor
PushUnvisitedNone(es, current_offset, vis) == <<>>

\* the destinations of current_offset that the for loop appends to the stack
PushUnvisited(es, current_offset, vis) ==
    SelectSeq(GetDestsFromOffset(es, current_offset), LAMBDA d : d \notin vis)

\* a loop that looks at the top of the stack only
UnreachableLoopTopOnly(es, stack, visited, target_offset) ==
    stack = <<>> \/ stack[Len(stack)] # target_offset

\* the while loop of __is_unreachable_block; the stack top is the last element
RECURSIVE UnreachableLoop(_, _, _, _)
UnreachableLoop(es, stack, visited, target_offset) ==
    IF stack = <<>> THEN TRUE
    ELSE LET current_offset == stack[Len(stack)]
             popped == SubSeq(stack, 1, Len(stack) - 1)
             vis == visited \cup {current_offset}
         IN IF current_offset = target_offset THEN FALSE
            ELSE UnreachableLoop(es, popped \o PushUnvisited(es, current_offset, vis),
                                 vis, target_offset)

\* a search that looks no further than the successors of the entry
IsUnreachableBlockOneHop(es, target_offset) ==
    /\ target_offset # 0
    /\ \A k \in 1..Len(GetDestsFromOffset(es, 0)) :
           GetDestsFromOffset(es, 0)[k] # target_offset

IsUnreachableBlock(es, target_offset) ==
    UnreachableLoop(es, <<0>>, {}, target_offset)

\* an iteration that asks for reachability before the two solved checks
ClassifyReachabilityFirst(bs, es, block) ==
    LET fl == GetFirstLastOpcodes(block) IN
    IF fl.raise THEN "malformed"
    ELSE IF fl.last # "JUMP" /\ fl.last # "JUMPI" THEN "skip"
    ELSE IF IsUnreachableBlock(es, block.offset) THEN "unreachable"
    ELSE LET p == IsPreciselySolved(bs, es, fl.last, block) IN
         IF p = "Raise" THEN "error"
         ELSE IF p = "True" THEN "precise"
         ELSE LET s == IsSoundlySolved(bs, es, fl.last, block) IN
              IF s = "Raise" THEN "error"
              ELSE IF s = "True" THEN "sound"
              ELSE "unsolved"

\* what one iteration of the loop of analyze_jumps does with `block`:
\* "malformed" and "skip" leave the counters alone, "error" is the except
\* branch that counts the jump as unsolved
Classify(bs, es, block) ==
    LET fl == GetFirstLastOpcodes(block) IN
    IF fl.raise THEN "malformed"
    ELSE IF fl.last # "JUMP" /\ fl.last # "JUMPI" THEN "skip"
    ELSE LET p == IsPreciselySolved(bs, es, fl.last, block) IN
         IF p = "Raise" THEN "error"
         ELSE IF p = "True" THEN "precise"
         ELSE LET s == IsSoundlySolved(bs, es, fl.last, block) IN
              IF s = "Raise" THEN "error"
              ELSE IF s = "True" THEN "sound"
              ELSE IF IsUnreachableBlock(es, block.offset) THEN "unreachable"
              ELSE "unsolved"

ZeroStats ==
    [precisely_solved_jumps |-> 0, soundly_solved_jumps |-> 0,
     unreachable_jumps |-> 0, unsolved_jumps |-> 0]

\* counters that the except branch leaves alone
BumpErrorUncounted(st, o) ==
    [precisely_solved_jumps |-> st.precisely_solved_jumps + (IF o = "precise" THEN 1 ELSE 0),
     soundly_solved_jumps |-> st.soundly_solved_jumps + (IF o = "sound" THEN 1 ELSE 0),
     unreachable_jumps |-> st.unreachable_jumps + (IF o = "unreachable" THEN 1 ELSE 0),
     unsolved_jumps |-> st.unsolved_jumps + (IF o = "unsolved" THEN 1 ELSE 0)]

\* self.__stats[key] += 1 for the branch taken
Bump(st, o) ==
    [precisely_solved_jumps |-> st.precisely_solved_jumps + (IF o = "precise" THEN 1 ELSE 0),
     soundly_solved_jumps |-> st.soundly_solved_jumps + (IF o = "sound" THEN 1 ELSE 0),
     unreachable_jumps |-> st.unreachable_jumps + (IF o = "unreachable" THEN 1 ELSE 0),
     unsolved_jumps |-> st.unsolved_jumps + (IF o \in {"unsolved", "error"} THEN 1 ELSE 0)]

\* the loop `for block in self.__blocks` of analyze_jumps from block k on,
\* with the counters st, the flag err and the log out so far; raised is the
\* AttributeError of self.__log.error when no logger was supplied
RECURSIVE AnalyzeLoop(_, _, _, _, _, _, _)
AnalyzeLoop(bs, es, lg, k, st, err, out) ==
    IF k > Len(bs)
    THEN [raised |-> FALSE, stats |-> st, errors |-> err, outcome |-> out]
    ELSE LET o == Classify(bs, es, bs[k]) IN
         IF o = "malformed" /\ ~lg
         THEN [raised |-> TRUE, stats |-> st, errors |-> TRUE, outcome |-> out]
         ELSE AnalyzeLoop(bs, es, lg, k + 1, Bump(st, o),
                          err \/ o \in {"malformed", "error"}, Append(out, o))

AnalyzeJumpsResult(bs, es, lg) ==
    AnalyzeLoop(bs, es, lg, 1, ZeroStats, FALSE, <<>>)

(* ------------------------------ decoder ------------------------------- *)
\* the bytes payloads are made of: STOP, ADD, a byte without mnemonic, JUMP,
\* JUMPI, PUSH0, PUSH1, PUSH2 and PUSH11 written in upper case
Bytes == {"00", "01", "0c", "56", "57", "5f", "60", "61", "6A"}

\* the cases of the match statement of push_bytes
PushTable ==
    ("60" :> 1) @@ ("61" :> 2) @@ ("62" :> 3) @@ ("63" :> 4) @@ ("64" :> 5)
    @@ ("65" :> 6) @@ ("66" :> 7) @@ ("67" :> 8) @@ ("68" :> 9) @@ ("69" :> 10)
    @@ ("6a" :> 11) @@ ("6b" :> 12) @@ ("6c" :> 13) @@ ("6d" :> 14) @@ ("6e" :> 15)
    @@ ("6f" :> 16) @@ ("70" :> 17) @@ ("71" :> 18) @@ ("72" :> 19) @@ ("73" :> 20)
    @@ ("74" :> 21) @@ ("75" :> 22) @@ ("76" :> 23) @@ ("77" :> 24) @@ ("78" :> 25)
    @@ ("79" :> 26) @@ ("7a" :> 27) @@ ("7b" :> 28) @@ ("7c" :> 29) @@ ("7d" :> 30)
    @@ ("7e" :> 31) @@ ("7f" :> 32)

\* every PUSH taken to carry one byte
PushBytesOneByte(opcode) ==
    IF opcode \in DOMAIN PushTable THEN 1 ELSE 0

PushBytes(opcode) ==
    IF opcode \in DOMAIN PushTable THEN PushTable[opcode] ELSE 0

\* the cases of the match statement of get_opcode_string that a string can
\* match (`case "49", "4f"` is a sequence pattern, which no str matches)
OpcodeTable ==
    ("00" :> "STOP") @@ ("01" :> "ADD") @@ ("02" :> "MUL") @@ ("03" :> "SUB")
    @@ ("04" :> "DIV") @@ ("05" :> "SDIV") @@ ("06" :> "MOD") @@ ("07" :> "SMOD")
    @@ ("08" :> "ADDMOD") @@ ("09" :> "MULMOD") @@ ("0a" :> "EXP") @@ ("0b" :> "SIGNEXTEND")
    @@ ("10" :> "LT") @@ ("11" :> "GT") @@ ("12" :> "SLT") @@ ("13" :> "SGT")
    @@ ("14" :> "EQ") @@ ("15" :> "ISZERO") @@ ("16" :> "AND") @@ ("17" :> "OR")
    @@ ("18" :> "XOR") @@ ("19" :> "NOT") @@ ("1a" :> "BYTE") @@ ("1b" :> "SHL")
    @@ ("1c" :> "SHR") @@ ("1d" :> "SAR") @@ ("20" :> "SHA3") @@ ("30" :> "ADDRESS")
    @@ ("31" :> "BALANCE") @@ ("32" :> "ORIGIN") @@ ("33" :> "CALLER")
    @@ ("34" :> "CALLVALUE") @@ ("35" :> "CALLDATALOAD") @@ ("36" :> "CALLDATASIZE")
    @@ ("37" :> "CALLDATACOPY") @@ ("38" :> "CODESIZE") @@ ("39" :> "CODECOPY")
    @@ ("3a" :> "GASPRICE") @@ ("3b" :> "EXTCODESIZE") @@ ("3c" :> "EXTCODECOPY")
    @@ ("3d" :> "RETURNDATASIZE") @@ ("3e" :> "RETURNDATACOPY") @@ ("3f" :> "EXTCODEHASH")
    @@ ("40" :> "BLOCKHASH") @@ ("41" :> "COINBASE") @@ ("42" :> "TIMESTAMP")
    @@ ("43" :> "NUMBER") @@ ("44" :> "DIFFICULTY") @@ ("45" :> "GASLIMIT")
    @@ ("46" :> "CHAINID") @@ ("47" :> "SELFBALANCE") @@ ("48" :> "BASEFEE")
    @@ ("50" :> "POP") @@ ("51" :> "MLOAD") @@ ("52" :> "MSTORE") @@ ("53" :> "MSTORE8")
    @@ ("54" :> "SLOAD") @@ ("55" :> "SSTORE") @@ ("56" :> "JUMP") @@ ("57" :> "JUMPI")
    @@ ("58" :> "PC") @@ ("59" :> "MSIZE") @@ ("5a" :> "GAS") @@ ("5b" :> "JUMPDEST")
    @@ ("5f" :> "PUSH0") @@ ("80" :> "DUP1") @@ ("81" :> "DUP2") @@ ("82" :> "DUP3")
    @@ ("83" :> "DUP4") @@ ("84" :> "DUP5") @@ ("85" :> "DUP6") @@ ("86" :> "DUP7")
    @@ ("87" :> "DUP8") @@ ("88" :> "DUP9") @@ ("89" :> "DUP10") @@ ("8a" :> "DUP11")
    @@ ("8b" :> "DUP12") @@ ("8c" :> "DUP13") @@ ("8d" :> "DUP14") @@ ("8e" :> "DUP15")
    @@ ("8f" :> "DUP16") @@ ("90" :> "SWAP1") @@ ("91" :> "SWAP2") @@ ("92" :> "SWAP3")
    @@ ("93" :> "SWAP4") @@ ("94" :> "SWAP5") @@ ("95" :> "SWAP6") @@ ("96" :> "SWAP7")
    @@ ("97" :> "SWAP8") @@ ("98" :> "SWAP9") @@ ("99" :> "SWAP10") @@ ("9a" :> "SWAP11")
    @@ ("9b" :> "SWAP12") @@ ("9c" :> "SWAP13") @@ ("9d" :> "SWAP14")
    @@ ("9e" :> "SWAP15") @@ ("9f" :> "SWAP16") @@ ("a0" :> "LOG0") @@ ("a1" :> "LOG1")
    @@ ("a2" :> "LOG2") @@ ("a3" :> "LOG3") @@ ("a4" :> "LOG4") @@ ("f0" :> "CREATE")
    @@ ("f1" :> "CALL") @@ ("f2" :> "CALLCODE") @@ ("f3" :> "RETURN")
    @@ ("f4" :> "DELEGATECALL") @@ ("f5" :> "CREATE2") @@ ("fa" :> "STATICCALL")
    @@ ("fd" :> "REVERT") @@ ("fe" :> "INVALID") @@ ("ff" :> "SELFDESTRUCT")
\* every opcode is reported as INVALID when the table does not know it
GetOpcodeStringInvalid(opcode) ==
    IF opcode \in DOMAIN OpcodeTable THEN OpcodeTable[opcode] ELSE "INVALID"

GetOpcodeString(opcode) ==
    IF opcode \in DOMAIN OpcodeTable THEN OpcodeTable[opcode]
    ELSE "'" \o opcode \o "'(Unknown Opcode)"

\* bytecode[from : to] for even from and to
Slice(code, from, to) ==
    LET first == (from \div 2) + 1
        last == IF to \div 2 < Len(code) THEN to \div 2 ELSE Len(code)
    IN IF first > last THEN <<>> ELSE SubSeq(code, first, last)

\* the characters of a sequence of bytes, as one string
RECURSIVE JoinBytes(_)
JoinBytes(bs) == IF bs = <<>> THEN "" ELSE Head(bs) \o JoinBytes(Tail(bs))

\* what one iteration of the loop makes of the opcode at cursor c: the
\* mnemonic, the immediate value and the line it writes
Instruction(code, c) ==
    LET opcode == Slice(code, c, c + 2)[1]
        bytes_for_val == PushBytes(opcode)
    IN IF bytes_for_val = 0
       THEN [name |-> GetOpcodeString(opcode), push |-> FALSE, value |-> <<>>,
             line |-> GetOpcodeString(opcode) \o "\n"]
       ELSE LET value == Slice(code, c + 2, c + 2 + bytes_for_val * 2)
            IN [name |-> "PUSH" \o ToString(bytes_for_val), push |-> TRUE,
                value |-> value,
                line |-> "PUSH" \o ToString(bytes_for_val) \o " 0x"
                           \o JoinBytes(value) \o "\n"]

\* a cursor that steps over the opcode only
NextCursorOpcodeOnly(c, bytes_for_val) == c + 2

\* a cursor that stays where it is
NextCursorStay(c, bytes_for_val) == c

\* the cursor after an iteration: i += bytes_for_val * 2 for a PUSH, i += 2
NextCursor(c, bytes_for_val) ==
    IF bytes_for_val = 0 THEN c + 2 ELSE c + bytes_for_val * 2 + 2

\* the instructions the loop produces from cursor c on
RECURSIVE DecodeFrom(_, _)
DecodeFrom(code, c) ==
    IF c >= 2 * Len(code) THEN <<>>
    ELSE <<Instruction(code, c)>>
         \o DecodeFrom(code, NextCursor(c, PushBytes(Slice(code, c, c + 2)[1])))

\* the payloads of the .bytecode files
Payloads == UNION { [1..n -> Bytes] : n \in 0..MaxPayload }

\* the lines parse_bytecode can write for these payloads, each with the
\* text str.strip() leaves of it
WrittenLines ==
    { <<Instruction(p, 0).line,
        IF Instruction(p, 0).push
        THEN Instruction(p, 0).name \o " 0x" \o JoinBytes(Instruction(p, 0).value)
        ELSE Instruction(p, 0).name>> : p \in Payloads \ {<<>>} }

StripWritten ==
    [ l \in { w[1] : w \in WrittenLines } |->
        (CHOOSE w \in WrittenLines : w[1] = l)[2] ]

\* the written texts that start with "PUSH"
PushTexts ==
    { Instruction(p, 0).name \o " 0x" \o JoinBytes(Instruction(p, 0).value) :
        p \in { q \in Payloads \ {<<>>} : Instruction(q, 0).push } }
    \cup {"PUSH0"}

(* ------------------------- syntactic metrics -------------------------- *)
\* str.strip() on the lines of a .opcodes file
Strip(line) ==
    CASE line = "JUMP\n" -> "JUMP"
      [] line = "JUMPI\n" -> "JUMPI"
      [] line = "PUSH1 0x00\n" -> "PUSH1 0x00"
      [] line = "STOP\n" -> "STOP"
      [] line = "\n" -> ""
      [] OTHER -> IF line \in DOMAIN StripWritten THEN StripWritten[line] ELSE line

\* str.startswith("PUSH")
StartsWithPush(s) == s = "PUSH1 0x00" \/ s \in PushTexts

FileLines == {"JUMP\n", "JUMPI\n", "PUSH1 0x00\n", "STOP\n", "\n"}

RECURSIVE CountOpcodes(_, _)
CountOpcodes(file, k) ==
    IF k > Len(file) THEN 0
    ELSE (IF Strip(file[k]) # "" THEN 1 ELSE 0) + CountOpcodes(file, k + 1)

GetTotalOpcodes(file) == CountOpcodes(file, 1)

RECURSIVE CountJumps(_, _)
CountJumps(file, k) ==
    IF k > Len(file) THEN 0
    ELSE (IF Strip(file[k]) = "JUMP" \/ Strip(file[k]) = "JUMPI" THEN 1 ELSE 0)
         + CountJumps(file, k + 1)

\* a count of the JUMP lines only
GetTotalJumpsJumpOnly(file) ==
    Cardinality({ k \in 1..Len(file) : Strip(file[k]) = "JUMP" })

GetTotalJumps(file) == CountJumps(file, 1)

RECURSIVE CountOrphans(_, _, _)
CountOrphans(file, k, last_push) ==
    IF k > Len(file) THEN 0
    ELSE LET line == Strip(file[k]) IN
         IF StartsWithPush(line) THEN CountOrphans(file, k + 1, TRUE)
         ELSE IF line = "JUMP"
              THEN (IF ~last_push THEN 1 ELSE 0) + CountOrphans(file, k + 1, FALSE)
              ELSE CountOrphans(file, k + 1, FALSE)

\* a scan whose flag, once set by a PUSH, is never reset
GetTotalOrphanJumpsNoReset(file) ==
    Cardinality({ k \in 1..Len(file) :
                    /\ Strip(file[k]) = "JUMP"
                    /\ ~\E j \in 1..(k - 1) : StartsWithPush(Strip(file[j])) })

GetTotalOrphanJumps(file) == CountOrphans(file, 1, FALSE)

(* ------------------------------ analyze ------------------------------- *)
InitSTATS ==
    [Total_Opcodes |-> 0, Total_Jumps |-> 0, Solved_Jumps |-> 0,
     Orphan_Jumps |-> 0, Precisely_Solved_Jumps |-> 0,
     Soundly_Solved_Jumps |-> 0, Pending_Jumps |-> 0,
     Unreachable_Jumps |-> 0, Unsolved_Jumps |-> 0]

\* MISSING_JUMPS: STATS["Pending Jumps"] still holds its initial 0 here
MissingJumps(total_jumps, solved_jumps) ==
    total_jumps - (solved_jumps + InitSTATS.Pending_Jumps)

\* JUMP_STATS["unreachable_jumps"] += MISSING_JUMPS
FoldMissing(unreachable_jumps, missing_jumps) ==
    unreachable_jumps + missing_jumps

\* the STATS dictionary with "Pending Jumps" computed before the missing
\* jumps are added to the unreachable ones
ComputeSTATSPendingBeforeFold(file, js) ==
    LET total == GetTotalJumps(file)
        solved == js.precisely_solved_jumps + js.soundly_solved_jumps
        miss == MissingJumps(total, solved)
    IN [Total_Opcodes |-> GetTotalOpcodes(file),
        Total_Jumps |-> total,
        Solved_Jumps |-> solved,
        Orphan_Jumps |-> GetTotalOrphanJumps(file),
        Precisely_Solved_Jumps |-> js.precisely_solved_jumps,
        Soundly_Solved_Jumps |-> js.soundly_solved_jumps,
        Pending_Jumps |-> js.unsolved_jumps + js.unreachable_jumps,
        Unreachable_Jumps |-> FoldMissing(js.unreachable_jumps, miss),
        Unsolved_Jumps |-> js.unsolved_jumps]

\* the STATS dictionary of analyze from the file's counts and JUMP_STATS
ComputeSTATS(file, js) ==
    LET total == GetTotalJumps(file)
        solved == js.precisely_solved_jumps + js.soundly_solved_jumps
        miss == MissingJumps(total, solved)
        unreachable == FoldMissing(js.unreachable_jumps, miss)
    IN [Total_Opcodes |-> GetTotalOpcodes(file),
        Total_Jumps |-> total,
        Solved_Jumps |-> solved,
        Orphan_Jumps |-> GetTotalOrphanJumps(file),
        Precisely_Solved_Jumps |-> js.precisely_solved_jumps,
        Soundly_Solved_Jumps |-> js.soundly_solved_jumps,
        Pending_Jumps |-> js.unsolved_jumps + unreachable,
        Unreachable_Jumps |-> unreachable,
        Unsolved_Jumps |-> js.unsolved_jumps]

(* ---------------------------- the inputs ------------------------------ *)
\* the blocks of a CFG, in ascending order of offset; f maps each offset to
\* its listing, or to <<>> when the CFG has no block there
RECURSIVE BlockList(_, _)
BlockList(f, o) ==
    IF o \notin Offsets THEN <<>>
    ELSE (IF f[o] = <<>> THEN <<>>
          ELSE << [offset |-> o, parsedOpcodes |-> f[o]] >>)
         \o BlockList(f, o + 1)

\* EtherSolve always emits the entry block, at offset 0
BlockChoices ==
    { f \in [Offsets -> Listings \cup {<<>>}] : f[0] # <<>> }

EdgeRecords == [from : Offsets, to : (SUBSET Offsets) \ {{}}]

\* records of different `from` are listed by ascending `from`: no code
\* reads their relative order
EdgeLists ==
    { es \in UNION { [1..n -> EdgeRecords] : n \in 0..MaxEdges } :
        \A k \in 1..(Len(es) - 1) : es[k].from <= es[k + 1].from }

OpcodeFiles == UNION { [1..n -> FileLines] : n \in 0..MaxLines }

\* no .bytecode file is being parsed
NoInfile == [exists |-> FALSE, prefix |-> "", payload |-> <<>>]

DecoderIdle ==
    /\ infile = NoInfile
    /\ bytecode = <<>>
    /\ i = 0
    /\ outfile = <<>>
    /\ ret = "pending"
    /\ dpc = "idle"
    /\ reads = <<>>

\* no reachability query is running on its own
SearchIdle ==
    /\ q_target = 0
    /\ q_stack = <<>>
    /\ q_visited = {}
    /\ is_unreachable = "pending"
    /\ spc = "idle"

\* pd.DataFrame()
NewDataFrame == [columns |-> {}, rows |-> <<>>]

\* the scheduler is not running
SchedulerIdle ==
    /\ results = <<>>
    /\ completed = <<>>
    /\ consumed = 0
    /\ df_res = NewDataFrame
    /\ involved_in_error = {}
    /\ jpc = "idle"

Init ==
    /\ \E f \in BlockChoices : blocks = BlockList(f, 0)
    /\ edges \in EdgeLists
    /\ log = TRUE
    /\ pc = "analyze_jumps"
    /\ stats = ZeroStats
    /\ encountered_errors = FALSE
    /\ outcome = <<>>
    /\ STATS = InitSTATS
    /\ missing = 0
    /\ marker = "None"
    /\ DecoderIdle
    /\ SearchIdle
    /\ SchedulerIdle

(* ------------------------------ actions ------------------------------- *)
\* Analyzer.analyze_jumps, called at analyze l.555-556
AnalyzeJumps ==
    /\ pc = "analyze_jumps"
    /\ \E r \in {AnalyzeJumpsResult(blocks, edges, log)} :
       /\ pc' = IF r.raised THEN "raised" ELSE "returned"
       /\ stats' = r.stats
       /\ encountered_errors' = r.errors
       /\ outcome' = r.outcome
    /\ UNCHANGED <<blocks, edges, log, STATS, missing, marker, dvars, svars, jvars>>

\* `del analyzer`, analyze l.557
DelAnalyzer ==
    /\ pc = "returned"
    /\ pc' = "reconcile"
    /\ blocks' = <<>>
    /\ edges' = <<>>
    /\ UNCHANGED <<log, stats, encountered_errors, outcome, STATS, missing, marker, dvars, svars, jvars>>

\* the rest of analyze: the counts of the .opcodes file (l.546-548, read
\* before the Analyzer runs and used only here) and l.560-594
Reconcile ==
    /\ pc = "reconcile"
    /\ \E file \in OpcodeFiles : \E S \in {ComputeSTATS(file, stats)} :
        LET miss == MissingJumps(S.Total_Jumps, S.Solved_Jumps)
            err == encountered_errors \/ miss > 0
        IN /\ STATS' = S
           /\ missing' = miss
           /\ encountered_errors' = err
           /\ stats' = [stats EXCEPT !.unreachable_jumps = S.Unreachable_Jumps]
           /\ marker' = IF err THEN "address" ELSE "None"
    /\ pc' = "done"
    /\ UNCHANGED <<blocks, edges, log, outcome, dvars, svars, jvars>>

Next == AnalyzeJumps \/ DelAnalyzer \/ Reconcile

Spec == Init /\ [][Next]_vars

\* the Analyzer constructed with or without a logger (log defaults to None)
InitAnyLogger ==
    /\ \E f \in BlockChoices : blocks = BlockList(f, 0)
    /\ edges \in EdgeLists
    /\ log \in BOOLEAN
    /\ pc = "analyze_jumps"
    /\ stats = ZeroStats
    /\ encountered_errors = FALSE
    /\ outcome = <<>>
    /\ STATS = InitSTATS
    /\ missing = 0
    /\ marker = "None"
    /\ DecoderIdle
    /\ SearchIdle
    /\ SchedulerIdle

SpecAnyLogger == InitAnyLogger /\ [][Next]_vars

(* --------------------------- parse_bytecode --------------------------- *)
\* the .bytecode files: every payload behind "0x", the short payloads behind
\* no prefix and behind "0X", and the file that does not exist
Infiles ==
    { [exists |-> TRUE, prefix |-> "0x", payload |-> p] : p \in Payloads }
    \cup { [exists |-> TRUE, prefix |-> q, payload |-> p] :
              q \in {"", "0X"}, p \in { r \in Payloads : Len(r) <= 2 } }
    \cup { NoInfile }

\* the length of the payload alone
ContentLenPayloadOnly(file) == 2 * Len(file.payload)

\* len(bytecode) of the file's content: a byte is two characters
ContentLen(file) == Len(file.prefix) + 2 * Len(file.payload)

\* bytecode[:2] of the file's content
FirstTwo(file) ==
    IF file.prefix # "" THEN file.prefix
    ELSE IF file.payload = <<>> THEN "" ELSE file.payload[1]

\* bytecode[2:] of the file's content
DropTwo(file) ==
    IF file.prefix # "" THEN file.payload
    ELSE IF file.payload = <<>> THEN <<>> ELSE Tail(file.payload)

\* the Analyzer and analyze are not running
AnalyzerIdle ==
    /\ blocks = <<>>
    /\ edges = <<>>
    /\ log = TRUE
    /\ pc = "idle"
    /\ stats = ZeroStats
    /\ encountered_errors = FALSE
    /\ outcome = <<>>
    /\ STATS = InitSTATS
    /\ missing = 0
    /\ marker = "None"

InitDecoder ==
    /\ infile \in Infiles
    /\ bytecode = <<>>
    /\ i = 0
    /\ outfile = <<>>
    /\ ret = "pending"
    /\ dpc = "parse_bytecode"
    /\ reads = <<>>
    /\ AnalyzerIdle
    /\ SearchIdle
    /\ SchedulerIdle

\* parse_bytecode up to the loop, l.41-79; outfile_exists is what
\* os.path.exists(OUTFILE_PATH) answers
ParseBytecode ==
    /\ dpc = "parse_bytecode"
    /\ \E outfile_exists \in BOOLEAN :
        IF ~infile.exists
        THEN ret' = "address" /\ dpc' = "returned" /\ bytecode' = bytecode
        ELSE IF outfile_exists
        THEN ret' = "None" /\ dpc' = "returned" /\ bytecode' = bytecode
        ELSE IF ContentLen(infile) < 4
        THEN ret' = "address" /\ dpc' = "returned" /\ bytecode' = bytecode
        ELSE IF FirstTwo(infile) # "0x"
        THEN ret' = "address" /\ dpc' = "returned" /\ bytecode' = bytecode
        ELSE ret' = ret /\ dpc' = "loop" /\ bytecode' = DropTwo(infile)
    /\ UNCHANGED <<infile, i, outfile, reads>>
    /\ UNCHANGED <<blocks, edges, log, pc, stats, encountered_errors, outcome,
                   STATS, missing, marker, svars, jvars>>

\* one iteration of the while loop, l.84-96
DecodeStep ==
    /\ dpc = "loop"
    /\ i < 2 * Len(bytecode)
    /\ \E instr \in {Instruction(bytecode, i)} :
        /\ outfile' = Append(outfile, instr.line)
        /\ reads' = Append(reads, [at |-> i,
                                   opcode |-> Slice(bytecode, i, i + 2)[1],
                                   instr |-> instr])
        /\ i' = NextCursor(i, PushBytes(Slice(bytecode, i, i + 2)[1]))
    /\ UNCHANGED <<infile, bytecode, ret, dpc>>
    /\ UNCHANGED <<blocks, edges, log, pc, stats, encountered_errors, outcome,
                   STATS, missing, marker, svars, jvars>>

\* the loop ends and parse_bytecode returns None, l.84 and l.98-100
DecodeEnd ==
    /\ dpc = "loop"
    /\ i >= 2 * Len(bytecode)
    /\ ret' = "None"
    /\ dpc' = "parsed"
    /\ UNCHANGED <<infile, bytecode, i, outfile, reads>>
    /\ UNCHANGED <<blocks, edges, log, pc, stats, encountered_errors, outcome,
                   STATS, missing, marker, svars, jvars>>

\* analyze reads the counts of the .opcodes file just written, l.546-548
ReadCounts ==
    /\ dpc = "parsed"
    /\ STATS' = [InitSTATS EXCEPT !.Total_Opcodes = GetTotalOpcodes(outfile),
                                  !.Total_Jumps = GetTotalJumps(outfile),
                                  !.Orphan_Jumps = GetTotalOrphanJumps(outfile)]
    /\ dpc' = "counted"
    /\ UNCHANGED <<infile, bytecode, i, outfile, ret, reads>>
    /\ UNCHANGED <<blocks, edges, log, pc, stats, encountered_errors, outcome,
                   missing, marker, svars, jvars>>

NextDecoder == ParseBytecode \/ DecodeStep \/ DecodeEnd \/ ReadCounts

SpecDecoder == InitDecoder /\ [][NextDecoder]_vars

(* ----------------------- __is_unreachable_block ---------------------- *)
\* which offsets have a block: the search never reads the listings
PresenceChoices ==
    { f \in [Offsets -> { << Line(" JUMPDEST") >>, <<>> }] : f[0] # <<>> }

\* a call of __is_unreachable_block(target_offset) on a CFG, l.321-322
InitSearch ==
    /\ \E f \in PresenceChoices : blocks = BlockList(f, 0)
    /\ edges \in EdgeLists
    /\ q_target \in Offsets
    /\ q_stack = <<0>>
    /\ q_visited = {}
    /\ is_unreachable = "pending"
    /\ spc = "search"
    /\ log = TRUE
    /\ pc = "idle"
    /\ stats = ZeroStats
    /\ encountered_errors = FALSE
    /\ outcome = <<>>
    /\ STATS = InitSTATS
    /\ missing = 0
    /\ marker = "None"
    /\ DecoderIdle
    /\ SchedulerIdle

\* one iteration of the while loop, l.325-338
SearchStep ==
    /\ spc = "search"
    /\ q_stack # <<>>
    /\ \E current_offset \in {q_stack[Len(q_stack)]} :
        /\ q_visited' = q_visited \cup {current_offset}
        /\ IF current_offset = q_target
           THEN /\ is_unreachable' = "False"
                /\ spc' = "returned"
                /\ q_stack' = SubSeq(q_stack, 1, Len(q_stack) - 1)
           ELSE /\ q_stack' = SubSeq(q_stack, 1, Len(q_stack) - 1)
                               \o PushUnvisited(edges, current_offset,
                                                q_visited \cup {current_offset})
                /\ UNCHANGED <<is_unreachable, spc>>
    /\ UNCHANGED <<q_target, blocks, edges, log, pc, stats, encountered_errors,
                   outcome, STATS, missing, marker, dvars, jvars>>

\* the stack is empty: return True, l.325 and l.340
SearchEnd ==
    /\ spc = "search"
    /\ q_stack = <<>>
    /\ is_unreachable' = "True"
    /\ spc' = "returned"
    /\ UNCHANGED <<q_target, q_stack, q_visited, blocks, edges, log, pc, stats,
                   encountered_errors, outcome, STATS, missing, marker, dvars,
                   jvars>>

NextSearch == SearchStep \/ SearchEnd

SpecSearch == InitSearch /\ [][NextSearch]_vars

\* the two loops, each run to its end: a loop of a sequential program that
\* can take its next iteration takes it
InitLoops == InitSearch \/ InitDecoder

NextLoops == NextSearch \/ NextDecoder

SpecLoops ==
    InitLoops /\ [][NextLoops]_vars /\ WF_vars(NextSearch) /\ WF_vars(NextDecoder)

(* ---------------------- json_analyzer_scheduler ---------------------- *)
\* the contracts handed to the scheduler
Addresses == {"a1", "a2", "a3"}

\* the files of a contract: <address>.opcodes and <address>.json, either of
\* which can be absent, the .json with or without its "runtimeCfg" key
CleanContract ==
    [op_exists |-> TRUE, opcodes |-> << "STOP\n" >>,
     json_exists |-> TRUE, has_cfg |-> TRUE,
     nodes |-> << [offset |-> 0, parsedOpcodes |-> << Line(" JUMPDEST") >>] >>,
     successors |-> <<>>]

ContractWithError ==
    [CleanContract EXCEPT
        !.opcodes = << "PUSH1 0x00\n", "JUMP\n" >>,
        !.nodes = << [offset |-> 0,
                      parsedOpcodes |-> << Line(" PUSH1 0x00"), Line(" JUMP") >>] >>]

ContractFiles ==
    { CleanContract,
      ContractWithError,
      [CleanContract EXCEPT !.op_exists = FALSE],
      [CleanContract EXCEPT !.json_exists = FALSE],
      [CleanContract EXCEPT !.has_cfg = FALSE] }

\* the empty dictionary {}
EmptyDict == [c \in {} |-> 0]

\* the pair analyze returns at l.594, S being the STATS dictionary without
\* its "Smart Contract" entry
ReturnedPair(contract_address, errors, S) ==
    [raised |-> FALSE,
     STATS |-> ("Smart_Contract" :> contract_address) @@ S,
     ADDRESS |-> IF errors \/ MissingJumps(S.Total_Jumps, S.Solved_Jumps) > 0
                 THEN contract_address ELSE "None"]

\* analyze from l.555 on, r being what analyze_jumps gave
AnalyzeReturn(contract_address, file, r) ==
    IF r.raised
    THEN [raised |-> TRUE, STATS |-> EmptyDict, ADDRESS |-> "None"]
    ELSE ReturnedPair(contract_address, r.errors, ComputeSTATS(file, r.stats))

\* analyze(contract_address, opcodes_dir, json_dir, log) on the files of a
\* contract: what the worker's future holds, a returned pair or an exception
Analyze(contract_address, files) ==
    IF ~files.op_exists \/ ~files.json_exists
    THEN [raised |-> FALSE, STATS |-> EmptyDict, ADDRESS |-> contract_address]
    ELSE IF ~files.has_cfg
    THEN [raised |-> TRUE, STATS |-> EmptyDict, ADDRESS |-> "None"]
    ELSE AnalyzeReturn(contract_address, files.opcodes,
                       AnalyzeJumpsResult(files.nodes, files.successors, TRUE))

\* pd.DataFrame([STATS]): one row, the keys of the dictionary as columns
DataFrameOf(d) == [columns |-> DOMAIN d, rows |-> << d >>]

\* DataFrame.empty: some axis has length 0
Empty(df) == df.columns = {} \/ df.rows = <<>>

\* a row over the columns cols, NaN where the row has no value
Fill(row, cols) ==
    [c \in cols |-> IF c \in DOMAIN row THEN row[c] ELSE "NaN"]

\* pd.concat([df, ins], ignore_index=True): the rows of both, over the
\* union of the columns
Concat(df, ins) ==
    LET cols == df.columns \cup ins.columns
        all == df.rows \o ins.rows
    IN [columns |-> cols,
        rows |-> [k \in 1..Len(all) |-> Fill(all[k], cols)]]

\* l.528-531
Collect(df, to_insert) ==
    IF Empty(df) THEN to_insert ELSE Concat(df, to_insert)

\* a future whose worker is still running on the files of its contract
Running(files) == [running |-> TRUE, files |-> files]

\* a future whose worker is done
Done(result) ==
    [running |-> FALSE, raised |-> result.raised, STATS |-> result.STATS,
     ADDRESS |-> result.ADDRESS]

\* every address submitted to the pool, l.509-513; results[a] is the
\* future of a
InitScheduler ==
    /\ \E files \in [Addresses -> ContractFiles] :
          results = [a \in Addresses |-> Running(files[a])]
    /\ completed = <<>>
    /\ consumed = 0
    /\ df_res = NewDataFrame
    /\ involved_in_error = {}
    /\ jpc = "collect"
    /\ AnalyzerIdle
    /\ DecoderIdle
    /\ SearchIdle

\* a worker finishes analyze on its contract: as_completed yields the
\* futures in this order
WorkerDone(a) ==
    /\ jpc = "collect"
    /\ results[a].running
    /\ results' = [results EXCEPT ![a] = Done(Analyze(a, results[a].files))]
    /\ completed' = Append(completed, a)
    /\ UNCHANGED <<consumed, df_res, involved_in_error, jpc>>
    /\ UNCHANGED <<blocks, edges, log, pc, stats, encountered_errors, outcome,
                   STATS, missing, marker, dvars, svars>>

\* one iteration of the loop over as_completed(futures), l.515-531;
\* completed.result() raises what the worker raised
CollectNext ==
    /\ jpc = "collect"
    /\ consumed < Len(completed)
    /\ \E r \in {results[completed[consumed + 1]]} :
        IF r.raised
        THEN /\ jpc' = "raised"
             /\ UNCHANGED <<consumed, df_res, involved_in_error>>
        ELSE /\ consumed' = consumed + 1
             /\ involved_in_error' =
                    IF r.ADDRESS # "None"
                    THEN involved_in_error \cup {r.ADDRESS}
                    ELSE involved_in_error
             /\ df_res' = Collect(df_res, DataFrameOf(r.STATS))
             /\ UNCHANGED jpc
    /\ UNCHANGED <<results, completed>>
    /\ UNCHANGED <<blocks, edges, log, pc, stats, encountered_errors, outcome,
                   STATS, missing, marker, dvars, svars>>

\* every future was consumed: return (df_res, involved_in_error), l.535
SchedulerReturn ==
    /\ jpc = "collect"
    /\ consumed = Cardinality(Addresses)
    /\ jpc' = "returned"
    /\ UNCHANGED <<results, completed, consumed, df_res, involved_in_error>>
    /\ UNCHANGED <<blocks, edges, log, pc, stats, encountered_errors, outcome,
                   STATS, missing, marker, dvars, svars>>

NextScheduler ==
    \/ \E a \in Addresses : WorkerDone(a)
    \/ CollectNext
    \/ SchedulerReturn

SpecScheduler == InitScheduler /\ [][NextScheduler]_vars

(* ------------------- the CFG as the specification reads it ------------ *)
\* the destination set D of an offset: the union of the `to` of its records
DestSet(o) ==
    UNION { edges[k].to : k \in { j \in 1..Len(edges) : edges[j].from = o } }

HasBlock(o) == \E k \in 1..Len(blocks) : blocks[k].offset = o

BlockAt(o) == blocks[CHOOSE k \in 1..Len(blocks) : blocks[k].offset = o]

\* the listing has "<offset>: <MNEMONIC>" on its first and on its last line
WellFormed(listing) ==
    /\ Len(listing) >= 1
    /\ Len(listing[1]) >= 2
    /\ Len(listing[Len(listing)]) >= 2

Resolves(o) == HasBlock(o) /\ WellFormed(BlockAt(o).parsedOpcodes)

StartsWithJumpdest(o) ==
    Resolves(o) /\ BlockAt(o).parsedOpcodes[1][2] = " JUMPDEST"

StartsWithOther(o) ==
    Resolves(o) /\ BlockAt(o).parsedOpcodes[1][2] # " JUMPDEST"

EndsWith(b, text) ==
    /\ WellFormed(b.parsedOpcodes)
    /\ b.parsedOpcodes[Len(b.parsedOpcodes)][2] = text

IsJumpBlock(b) == EndsWith(b, " JUMP") \/ EndsWith(b, " JUMPI")

\* the offsets a path of successor edges leads to from the offsets of S
RECURSIVE ReachFrom(_)
ReachFrom(S) ==
    LET N == S \cup UNION { DestSet(x) : x \in S }
    IN IF N = S THEN S ELSE ReachFrom(N)

Reachable == ReachFrom({0})

PreciseCond(b) ==
    LET D == DestSet(b.offset) IN
    IF EndsWith(b, " JUMP")
    THEN Cardinality(D) = 1 /\ \A d \in D : StartsWithJumpdest(d)
    ELSE /\ Cardinality(D) = 2
         /\ \E d \in D : StartsWithJumpdest(d) /\ \A e \in D \ {d} : StartsWithOther(e)

SoundCond(b) ==
    LET D == DestSet(b.offset) IN
    IF EndsWith(b, " JUMP")
    THEN Cardinality(D) >= 1 /\ \E d \in D : StartsWithJumpdest(d)
    ELSE /\ Cardinality(D) >= 2
         /\ \E d \in D : StartsWithJumpdest(d)
         /\ \E d \in D : StartsWithOther(d)

\* the blocks analyze_jumps has gone through, with the CFG still at hand
Examined == IF pc = "returned" THEN 1..Len(blocks) ELSE {}

RECURSIVE CountOf(_, _, _)
CountOf(seq, k, S) ==
    IF k > Len(seq) THEN 0
    ELSE (IF seq[k] \in S THEN 1 ELSE 0) + CountOf(seq, k + 1, S)

\* what the classifier counted, read off its log
Counted(S) == CountOf(outcome, 1, S)

(* ------------------------------ claims -------------------------------- *)
\* C1: a well-formed JUMP block is reported PreciselySolved iff its
\* destination set has exactly one element and that block starts with JUMPDEST
C1_JumpPreciseIff ==
    \A k \in Examined :
        EndsWith(blocks[k], " JUMP") =>
            (outcome[k] = "precise" <=> PreciseCond(blocks[k]))

\* C2: a well-formed JUMPI block is reported PreciselySolved iff its
\* destination set has exactly two elements, exactly one starting with JUMPDEST
C2_JumpiPreciseIff ==
    \A k \in Examined :
        EndsWith(blocks[k], " JUMPI") =>
            (outcome[k] = "precise" <=> PreciseCond(blocks[k]))

\* C3 as stated: a JUMP block that is not PreciselySolved is SoundlySolved
\* iff its destination set is not empty and one destination starts with JUMPDEST
C3_JumpSoundIff ==
    \A k \in Examined :
        (EndsWith(blocks[k], " JUMP") /\ outcome[k] # "precise") =>
            (outcome[k] = "sound" <=> SoundCond(blocks[k]))

\* C3 amended: the same, for the JUMP blocks whose classification raised no error
C3_JumpSoundIffNoError ==
    \A k \in Examined :
        (EndsWith(blocks[k], " JUMP") /\ outcome[k] \notin {"precise", "error"}) =>
            (outcome[k] = "sound" <=> SoundCond(blocks[k]))

\* a JUMP block that has a destination not starting with JUMPDEST is SoundlySolved
C3_Witness ==
    /\ pc = "returned"
    /\ \E k \in 1..Len(blocks) :
        /\ EndsWith(blocks[k], " JUMP")
        /\ outcome[k] = "sound"
        /\ \E d \in DestSet(blocks[k].offset) : StartsWithOther(d)

\* C4 as stated: a JUMPI block that is not PreciselySolved is SoundlySolved
\* iff it has at least two destinations, one starting with JUMPDEST and one not
C4_JumpiSoundIff ==
    \A k \in Examined :
        (EndsWith(blocks[k], " JUMPI") /\ outcome[k] # "precise") =>
            (outcome[k] = "sound" <=> SoundCond(blocks[k]))

\* C4 amended: the same, for the JUMPI blocks whose classification raised no error
C4_JumpiSoundIffNoError ==
    \A k \in Examined :
        (EndsWith(blocks[k], " JUMPI") /\ outcome[k] \notin {"precise", "error"}) =>
            (outcome[k] = "sound" <=> SoundCond(blocks[k]))

\* a JUMPI block with three destinations that all resolve is SoundlySolved
C4_Witness ==
    /\ pc = "returned"
    /\ \E k \in 1..Len(blocks) :
        /\ EndsWith(blocks[k], " JUMPI")
        /\ outcome[k] = "sound"
        /\ Cardinality(DestSet(blocks[k].offset)) = 3
        /\ \A d \in DestSet(blocks[k].offset) : Resolves(d)

\* C5: a jump block for which neither solved condition holds and no error
\* occurred is Unreachable iff no path of successor edges leads from offset 0
\* to its offset, and Unsolved otherwise; at offset 0 it is never Unreachable
C5_UnreachableIffNoPath ==
    \A k \in Examined :
        ( /\ IsJumpBlock(blocks[k])
          /\ ~PreciseCond(blocks[k])
          /\ ~SoundCond(blocks[k])
          /\ outcome[k] # "error" ) =>
            /\ outcome[k] = "unreachable" <=> blocks[k].offset \notin Reachable
            /\ outcome[k] = "unsolved" <=> blocks[k].offset \in Reachable
            /\ blocks[k].offset = 0 => outcome[k] # "unreachable"

\* one jump block is Unreachable and another, away from the entry, is Unsolved
C5_Witness ==
    /\ pc = "returned"
    /\ \E k, j \in 1..Len(blocks) :
        /\ IsJumpBlock(blocks[k]) /\ outcome[k] = "unreachable"
        /\ IsJumpBlock(blocks[j]) /\ outcome[j] = "unsolved"
        /\ blocks[j].offset # 0

\* C6: a jump block with a destination that has no block is counted as
\* Unsolved with the error flag set, and every block is still classified
C6_DanglingIsUnsolvedError ==
    \A k \in Examined :
        ( /\ IsJumpBlock(blocks[k])
          /\ \E d \in DestSet(blocks[k].offset) : ~HasBlock(d) ) =>
            /\ outcome[k] \in {"unsolved", "error"}
            /\ encountered_errors
            /\ Len(outcome) = Len(blocks)

\* C7: the destination collection of a jump block holds every offset once
C7_DestsUnique ==
    \A k \in Examined :
        IsJumpBlock(blocks[k]) =>
            Len(GetDestsFromBlock(edges, blocks[k]))
                = Cardinality(DestSet(blocks[k].offset))

\* C8: missing = total jumps - solved; unreachable grows by missing and the
\* flag is raised exactly when missing > 0; otherwise unreachable is the
\* classifier's own count
C8_FoldOnlyPositive ==
    pc = "done" =>
        LET m == STATS.Total_Jumps - Counted({"precise", "sound"}) IN
        /\ missing = m
        /\ STATS.Unreachable_Jumps
              = Counted({"unreachable"}) + (IF m > 0 THEN m ELSE 0)
        /\ encountered_errors <=> (Counted({"malformed", "error"}) > 0 \/ m > 0)

\* C9: every numeric field of the returned record is non-negative
C9_NonNegative ==
    pc = "done" =>
        /\ STATS.Total_Opcodes >= 0
        /\ STATS.Total_Jumps >= 0
        /\ STATS.Orphan_Jumps >= 0
        /\ STATS.Precisely_Solved_Jumps >= 0
        /\ STATS.Soundly_Solved_Jumps >= 0
        /\ STATS.Solved_Jumps >= 0
        /\ STATS.Pending_Jumps >= 0
        /\ STATS.Unreachable_Jumps >= 0
        /\ STATS.Unsolved_Jumps >= 0

\* C10: solved + pending <= total jumps unless a positive missing count was
\* folded into unreachable, and then the error flag is set
C10_SolvedPlusPendingBounded ==
    pc = "done" =>
        IF missing > 0 THEN encountered_errors
        ELSE STATS.Solved_Jumps + STATS.Pending_Jumps <= STATS.Total_Jumps

\* the outcomes of the blocks the classifier's scan found to end with JUMP or JUMPI
JumpOutcomes == {"precise", "sound", "unreachable", "unsolved", "error"}

\* C11: in the returned record, precisely solved + soundly solved +
\* unreachable + unsolved equals the number of CFG blocks that the
\* classifier's scan found to end with JUMP or JUMPI
C11_SumIsScannedJumpBlocks ==
    pc = "done" =>
        STATS.Precisely_Solved_Jumps + STATS.Soundly_Solved_Jumps
            + STATS.Unreachable_Jumps + STATS.Unsolved_Jumps
          = Counted(JumpOutcomes)

\* C12: in the returned record Solved = Precisely Solved + Soundly Solved and
\* Pending = Unsolved + Unreachable, Unreachable being the classifier's count
\* with the missing jumps added
C12_SolvedAndPendingAreSums ==
    pc = "done" =>
        /\ STATS.Solved_Jumps
              = STATS.Precisely_Solved_Jumps + STATS.Soundly_Solved_Jumps
        /\ STATS.Pending_Jumps
              = STATS.Unsolved_Jumps + STATS.Unreachable_Jumps
        /\ STATS.Unreachable_Jumps = Counted({"unreachable"}) + missing
        /\ STATS.Unsolved_Jumps = Counted({"unsolved", "error"})
        /\ STATS.Precisely_Solved_Jumps = Counted({"precise"})
        /\ STATS.Soundly_Solved_Jumps = Counted({"sound"})

\* a record with solved and unsolved jumps into whose unreachable count
\* missing jumps were added
C12_Witness ==
    /\ pc = "done"
    /\ missing > 0
    /\ STATS.Solved_Jumps > 0
    /\ STATS.Unsolved_Jumps > 0

\* C13: whatever the CFG and whether or not a logger is supplied,
\* analyze_jumps returns its counters and flag and never raises
C13_AnalyzeJumpsNeverRaises == pc # "raised"

\* well-formed listings that do not end with a jump
NonJumpListings == { << Line(" JUMPDEST") >>, << Line(" STOP") >> }

\* the counter an outcome increments
CounterOf(o) == IF o = "error" THEN "unsolved" ELSE o

\* C14: a block whose listing lacks "<offset>: <MNEMONIC>" on its first or
\* last line is counted in none of the four counters, the error flag is set,
\* and every other block is classified as it is when that listing is
\* replaced by a well-formed one that does not end with a jump
C14_MalformedBlockSkipped ==
    \A k \in Examined :
        ~WellFormed(blocks[k].parsedOpcodes) =>
            /\ outcome[k] \notin JumpOutcomes
            /\ encountered_errors
            /\ \A listing \in NonJumpListings :
                  LET r == AnalyzeJumpsResult(
                               [blocks EXCEPT ![k].parsedOpcodes = listing],
                               edges, log)
                  IN \A j \in (1..Len(blocks)) \ {k} :
                         CounterOf(r.outcome[j]) = CounterOf(outcome[j])

(* ------------------ the decoder as the specification reads it --------- *)
\* n for a byte whose value is a PUSHn opcode (0x60..0x7f), 0 for the others
PushSize(b) ==
    CASE b = "60" -> 1
      [] b = "61" -> 2
      [] b = "6A" -> 11
      [] OTHER -> 0

\* parse_bytecode has read the input: the .bytecode file exists and no
\* .opcodes file made it return at once
InputRead ==
    /\ infile.exists
    /\ ret # "pending"
    /\ ~(dpc = "returned" /\ ret = "None")

\* the byte of the payload at character position c
ByteAt(c) == bytecode[(c \div 2) + 1]

\* the bytes of the payload after the byte at c, n of them when there are
BytesAfter(c, n) ==
    [ k \in 1..(IF (c \div 2) + 1 + n <= Len(bytecode)
                THEN n ELSE Len(bytecode) - ((c \div 2) + 1)) |->
        bytecode[(c \div 2) + 1 + k] ]

Instrs == [ k \in 1..Len(reads) |-> reads[k].instr ]

\* the bytes an instruction is encoded back to: the byte of its mnemonic in
\* the table, followed by the immediate for a PUSHn; the raw byte a
\* placeholder carries
EncodeInstr(instr) ==
    IF instr.push
    THEN << CHOOSE b \in DOMAIN PushTable :
                instr.name = "PUSH" \o ToString(PushTable[b]) >> \o instr.value
    ELSE IF \E b \in DOMAIN OpcodeTable : OpcodeTable[b] = instr.name
    THEN << CHOOSE b \in DOMAIN OpcodeTable : OpcodeTable[b] = instr.name >>
    ELSE << CHOOSE b \in Bytes : instr.name = "'" \o b \o "'(Unknown Opcode)" >>

RECURSIVE EncodeAll(_)
EncodeAll(instrs) ==
    IF instrs = <<>> THEN <<>>
    ELSE EncodeInstr(Head(instrs)) \o EncodeAll(Tail(instrs))

\* C15 as stated: an input with fewer than 2 payload bytes after "0x", or
\* one that does not start with "0x", makes parse_bytecode return the address
C15_FewerThanTwoBytesFails ==
    InputRead =>
        ((infile.prefix # "0x" \/ Len(infile.payload) < 2) => ret = "address")

\* C15 amended: parse_bytecode returns the address exactly for the inputs
\* with no payload byte after "0x" and for those not starting with "0x"
C15_NoByteOrUnprefixedFails ==
    InputRead =>
        (ret = "address" <=> (infile.prefix # "0x" \/ Len(infile.payload) < 1))

\* the input "0x" is rejected
C15_Witness ==
    /\ InputRead
    /\ infile.prefix = "0x"
    /\ infile.payload = <<>>
    /\ ret = "address"

\* C16: "0x" and one non-PUSH byte decode to exactly one instruction ("0x00"
\* to STOP); "0x", a PUSH1 byte and one data byte decode to exactly one
\* PUSH1 with that byte as immediate ("0x6001" to PUSH1 0x01)
C16_OneInstruction ==
    (dpc = "parsed" /\ infile.prefix = "0x") =>
        /\ (Len(infile.payload) = 1 /\ PushSize(infile.payload[1]) = 0) =>
               (ret = "None" /\ Len(outfile) = 1 /\ ~reads[1].instr.push)
        /\ infile.payload = <<"00">> => outfile = <<"STOP\n">>
        /\ (Len(infile.payload) = 2 /\ infile.payload[1] = "60") =>
               /\ ret = "None"
               /\ outfile = << "PUSH1 0x" \o infile.payload[2] \o "\n" >>
               /\ reads[1].instr.value = << infile.payload[2] >>
        /\ infile.payload = <<"60", "01">> => outfile = <<"PUSH1 0x01\n">>

\* "0x6001" has been decoded
C16_Witness ==
    /\ dpc = "parsed"
    /\ infile.prefix = "0x"
    /\ infile.payload = <<"60", "01">>
    /\ outfile = <<"PUSH1 0x01\n">>

\* C17: wherever the decoder reads a PUSHn byte it emits one PUSHn whose
\* immediate is the n following bytes and goes on after the immediate;
\* PUSH0 has no immediate and takes one byte
C17_PushTakesImmediate ==
    \A k \in 1..Len(reads) :
        LET r == reads[k]
            n == PushSize(r.opcode)
        IN /\ n > 0 =>
                /\ r.instr.name = "PUSH" \o ToString(n)
                /\ Len(r.instr.value) = n
                /\ r.instr.value = BytesAfter(r.at, n)
                /\ k < Len(reads) => reads[k + 1].at = r.at + 2 + 2 * n
           /\ r.opcode = "5f" =>
                /\ r.instr.name = "PUSH0"
                /\ r.instr.value = <<>>
                /\ k < Len(reads) => reads[k + 1].at = r.at + 2

\* C18: a well-framed input never fails, every position the cursor stops at
\* gets one instruction and these positions cover the payload; a byte
\* without mnemonic yields a placeholder that carries the byte and is
\* neither JUMP, JUMPI nor JUMPDEST
C18_DisassemblyTotal ==
    /\ (InputRead /\ infile.prefix = "0x" /\ Len(infile.payload) >= 1) =>
            ret = "None"
    /\ dpc = "parsed" =>
        /\ Len(outfile) = Len(reads)
        /\ Len(EncodeAll(Instrs)) = Len(bytecode)
        /\ \A k \in 1..Len(reads) :
              /\ reads[k].at = Len(EncodeAll(SubSeq(Instrs, 1, k - 1))) * 2
              /\ outfile[k] = reads[k].instr.line
              /\ ( /\ reads[k].opcode \notin DOMAIN OpcodeTable
                    /\ PushSize(reads[k].opcode) = 0 ) =>
                    /\ outfile[k] = "'" \o ByteAt(reads[k].at) \o "'(Unknown Opcode)\n"
                    /\ GetOpType(reads[k].instr.name) = "OTHER"
                    /\ Strip(outfile[k]) \notin {"JUMP", "JUMPI", "JUMPDEST"}

\* a byte without mnemonic has been decoded between two other instructions
C18_Witness ==
    /\ dpc = "parsed"
    /\ \E k \in 2..(Len(reads) - 1) :
          /\ reads[k].opcode = "0c"
          /\ outfile[k] = "'0c'(Unknown Opcode)\n"

\* C19: instructions come out in the order of their bytes; encoding them
\* back and decoding again gives the same instructions, and a PUSHn whose
\* immediate has n bytes is encoded back to the bytes it was read from
C19_RoundTrip ==
    dpc = "parsed" =>
        /\ \A k \in 1..(Len(reads) - 1) : reads[k].at < reads[k + 1].at
        /\ \A k \in 1..Len(reads) : reads[k].opcode = ByteAt(reads[k].at)
        /\ DecodeFrom(EncodeAll(Instrs), 0) = Instrs
        /\ \A k \in 1..Len(reads) :
              ( /\ reads[k].instr.push
                /\ reads[k].instr.name
                      = "PUSH" \o ToString(Len(reads[k].instr.value)) ) =>
                  EncodeInstr(reads[k].instr)
                      = <<ByteAt(reads[k].at)>>
                          \o BytesAfter(reads[k].at, Len(reads[k].instr.value))

\* a PUSH2 with both bytes of its immediate, followed by another instruction
C19_Witness ==
    /\ dpc = "parsed"
    /\ Len(reads) = 2
    /\ reads[1].instr.name = "PUSH2"
    /\ Len(reads[1].instr.value) = 2
    /\ EncodeAll(Instrs) = bytecode

\* C20: the instruction count is the number of decoded instructions and the
\* jump count the number of them named JUMP or JUMPI, which are the 0x56 and
\* 0x57 bytes read as opcodes, not those inside an immediate
C20_CountsMatchDecoded ==
    dpc = "counted" =>
        /\ STATS.Total_Opcodes = Len(reads)
        /\ STATS.Total_Jumps
              = Cardinality({ k \in 1..Len(reads) :
                                reads[k].instr.name \in {"JUMP", "JUMPI"} })
        /\ STATS.Total_Jumps
              = Cardinality({ k \in 1..Len(reads) :
                                reads[k].opcode \in {"56", "57"} })

\* a JUMPI follows a PUSH whose immediate holds the byte 0x56
C20_Witness ==
    /\ dpc = "counted"
    /\ STATS.Total_Jumps = 1
    /\ STATS.Total_Opcodes = 2
    /\ reads[1].instr.push
    /\ \E j \in 1..Len(reads[1].instr.value) : reads[1].instr.value[j] = "56"
    /\ reads[2].instr.name = "JUMPI"

\* the instruction is a PUSH of some size, PUSH0 included
IsPushInstr(instr) == instr.push \/ instr.name = "PUSH0"

\* C21: the orphan count is the number of JUMP instructions (JUMPI excluded)
\* that are first in the stream or follow an instruction that is no PUSH
C21_OrphanCount ==
    dpc = "counted" =>
        STATS.Orphan_Jumps
          = Cardinality({ k \in 1..Len(reads) :
                            /\ reads[k].instr.name = "JUMP"
                            /\ (k = 1 \/ ~IsPushInstr(reads[k - 1].instr)) })

\* PUSH1, JUMP, JUMP has been counted: one orphan
C21_Witness ==
    /\ dpc = "counted"
    /\ Len(reads) = 3
    /\ reads[1].instr.name = "PUSH1"
    /\ reads[2].instr.name = "JUMP"
    /\ reads[3].instr.name = "JUMP"
    /\ STATS.Orphan_Jumps = 1

\* a path of successor edges leads from offset 0 to T
HasPath(T) ==
    \E n \in 2..Cardinality(Offsets) : \E p \in [1..n -> Offsets] :
        /\ p[1] = 0
        /\ p[n] = T
        /\ \A j \in 1..(n - 1) : p[j + 1] \in DestSet(p[j])

\* C22: the search reports T reachable iff T = 0 or a path of successor
\* edges leads from offset 0 to T; it ends with an answer, never an error,
\* also when edges lead to offsets without block
C22_ReachableIffPath ==
    spc = "returned" =>
        /\ is_unreachable \in {"True", "False"}
        /\ is_unreachable = "False" <=> (q_target = 0 \/ HasPath(q_target))

\* the target was found through an offset that has no block
C22_Witness ==
    /\ spc = "returned"
    /\ is_unreachable = "False"
    /\ q_target \notin DestSet(0) \cup {0}
    /\ \E m \in DestSet(0) : ~HasBlock(m) /\ q_target \in DestSet(m)

\* C26: the answer of the stack-based search to a query is the answer of
\* the membership test in the set of all offsets reachable from offset 0
C26_SearchEqualsReachSet ==
    /\ spc = "returned" =>
          (is_unreachable = "True" <=> q_target \notin Reachable)
    /\ spc # "idle" =>
          \A T \in Offsets :
              IsUnreachableBlock(edges, T) <=> T \notin Reachable

\* a query answered "unreachable" on a CFG where other offsets are reachable
C26_Witness ==
    /\ spc = "returned"
    /\ is_unreachable = "True"
    /\ Cardinality(Reachable) = 2
    /\ DestSet(q_target) # {}

\* both loops have ended
LoopsOver ==
    /\ spc \in {"idle", "returned"}
    /\ dpc \in {"idle", "returned", "counted"}

\* C28: the reachability search ends on every edge set and the decoder loop
\* on every payload, its cursor growing with every iteration
C28_LoopsTerminate ==
    /\ <>LoopsOver
    /\ [][DecodeStep => i' > i]_vars

\* the search holds an offset twice on its stack, on a CFG with a cycle
C28_Witness ==
    /\ spc = "search"
    /\ \E a, b \in 1..Len(q_stack) : a < b /\ q_stack[a] = q_stack[b]
    /\ \E o \in Offsets : o \in UNION { DestSet(x) : x \in DestSet(o) }

\* the rows of the report that carry the address a
RowsOf(a) ==
    { k \in 1..Len(df_res.rows) :
        /\ "Smart_Contract" \in DOMAIN df_res.rows[k]
        /\ df_res.rows[k]["Smart_Contract"] = a }

\* the worker of a returned statistics
HasStatistics(a) ==
    /\ ~results[a].running
    /\ ~results[a].raised
    /\ DOMAIN results[a].STATS # {}

\* C23: no worker's failure stops the collection, and the report returned
\* holds, whatever the order of completion, one row for every contract whose
\* worker returned statistics and no other row
C23_FailureIsolated ==
    /\ jpc # "raised"
    /\ jpc = "returned" =>
          /\ \A a \in Addresses :
                HasStatistics(a) =>
                    \E k \in 1..Len(df_res.rows) :
                        RowsOf(a) = {k} /\ df_res.rows[k] = results[a].STATS
          /\ Len(df_res.rows)
               = Cardinality({ a \in Addresses : HasStatistics(a) })

\* an error was recorded for the contract a
ErrorRecorded(a) ==
    /\ ~results[a].running
    /\ ~results[a].raised
    /\ results[a].ADDRESS = a

\* C24: in the returned pair every contract with a recorded error has one
\* row with its statistics and is in the error set, and no contract without
\* recorded error is in the error set
C24_ErroredContractsReported ==
    jpc = "returned" =>
        \A a \in Addresses :
            /\ ErrorRecorded(a) =>
                  /\ a \in involved_in_error
                  /\ Cardinality(RowsOf(a)) = 1
            /\ ~ErrorRecorded(a) => a \notin involved_in_error

\* C25 as stated: a jump block for which a solved condition holds is
\* reported solved, reachable from offset 0 or not, and a block reported
\* Unreachable or Unsolved failed both solved conditions
C25_SolvedBeforeReachability ==
    \A k \in Examined :
        IsJumpBlock(blocks[k]) =>
            /\ (PreciseCond(blocks[k]) \/ SoundCond(blocks[k]))
                  => outcome[k] \in {"precise", "sound"}
            /\ outcome[k] \in {"unreachable", "unsolved"}
                  => ~PreciseCond(blocks[k]) /\ ~SoundCond(blocks[k])

\* C25 amended: the same, for the jump blocks whose classification raised
\* no error
C25_SolvedBeforeReachabilityNoError ==
    \A k \in Examined :
        (IsJumpBlock(blocks[k]) /\ outcome[k] # "error") =>
            /\ (PreciseCond(blocks[k]) \/ SoundCond(blocks[k]))
                  => outcome[k] \in {"precise", "sound"}
            /\ outcome[k] \in {"unreachable", "unsolved"}
                  => ~PreciseCond(blocks[k]) /\ ~SoundCond(blocks[k])

\* a jump block that no path reaches from offset 0 is reported solved
C25_Witness ==
    /\ pc = "returned"
    /\ \E k \in 1..Len(blocks) :
        /\ IsJumpBlock(blocks[k])
        /\ blocks[k].offset \notin Reachable
        /\ PreciseCond(blocks[k]) \/ SoundCond(blocks[k])
        /\ outcome[k] \in {"precise", "sound"}

\* C27: when analyze_jumps has returned, its four counters add up to the
\* number of blocks whose listing is well-formed and ends with JUMP or
\* JUMPI: each of them was counted once, in the counter of its outcome, and
\* no other block was counted
C27_CountersSumToJumpBlocks ==
    pc = "returned" =>
        /\ stats.precisely_solved_jumps + stats.soundly_solved_jumps
              + stats.unreachable_jumps + stats.unsolved_jumps
             = Cardinality({ k \in 1..Len(blocks) : IsJumpBlock(blocks[k]) })
        /\ \A k \in 1..Len(blocks) :
              IsJumpBlock(blocks[k]) <=> outcome[k] \in JumpOutcomes
        /\ stats.precisely_solved_jumps = Counted({"precise"})
        /\ stats.soundly_solved_jumps = Counted({"sound"})
        /\ stats.unreachable_jumps = Counted({"unreachable"})
        /\ stats.unsolved_jumps = Counted({"unsolved", "error"})

\* two jump blocks were counted, one of them through the except branch,
\* next to a malformed block that was not
C27_Witness ==
    /\ pc = "returned"
    /\ Counted(JumpOutcomes) = 2
    /\ Counted({"error"}) = 1
    /\ Counted({"malformed"}) = 1

\* the same elements in every order
Reorderings(seq) ==
    { [k \in 1..Len(seq) |-> seq[pi[k]]] : pi \in Permutations(1..Len(seq)) }

\* C29: the counters and the flag analyze_jumps returns are those it
\* returns on every reordering of the blocks and of the edge records
C29_OrderIndependent ==
    pc = "returned" =>
        \A bs2 \in Reorderings(blocks) : \A es2 \in Reorderings(edges) :
            \E r \in {AnalyzeJumpsResult(bs2, es2, log)} :
                /\ r.stats = stats
                /\ r.errors = encountered_errors

\* C30: analyze, run on existing files, returns the address as marker when
\* a block was malformed, a jump classification raised an error or
\* missing > 0, and None otherwise; it does not leave without a marker on a
\* CFG that has a malformed block
C30_MarkerIffError ==
    /\ pc = "done" =>
          (marker = "address"
             <=> \/ Counted({"malformed"}) > 0
                 \/ Counted({"error"}) > 0
                 \/ missing > 0)
    /\ pc = "done" => marker \in {"address", "None"}
    /\ pc = "raised" =>
          \A k \in 1..Len(blocks) : WellFormed(blocks[k].parsedOpcodes)
====
